---- MODULE Spec2Model ----
(***************************************************************************)
(* A model of the hypergraph_properties package:                           *)
(*   hypergraph.py           the Hypergraph object and its quotient        *)
(*   partitions.py           partition normalisation and validation        *)
(*   isomorphism.py          the bipartite reduction, is_isomorphic and    *)
(*                           hypergraph_automorphisms                      *)
(*   isomorphism_classes.py  generate_nonisomorphic_hypergraphs            *)
(*                                                                         *)
(* Python values are modelled as follows.  A frozenset is a set.  A list   *)
(* is a sequence; Python index i is position i + 1.  An optional value is  *)
(* None (the empty sequence) or Some(x) (a one-element sequence).  A dict  *)
(* with insertion order is a sequence of entries.  A raised ValueError is  *)
(* recorded by the kind of its message ("" when nothing was raised).       *)
(*                                                                         *)
(* Hypergraph.vertex_attrs is written by __init__ and add_vertex and read  *)
(* by nothing; it is left out.                                             *)
(***************************************************************************)
EXTENDS Integers, Sequences, FiniteSets, TLC

VARIABLES
    H,      \* SpecHG / SpecQ / SpecNew: the Hypergraph object (None when __init__ raised)
    ret,    \* SpecHG / SpecQ / SpecNew: the outcome of the last call on H
    Hq,     \* SpecQ: the hypergraph returned by the last quotient call
    H1,     \* SpecIso / SpecMasks: the first hypergraph given to the oracle
    H2,     \* SpecIso / SpecMasks: the second hypergraph given to is_isomorphic
    res,    \* SpecIso / SpecMasks: the outcome of the last oracle call
    k, alpha, max_vertices, require_no_isolated,
            \* SpecGen: the arguments of generate_nonisomorphic_hypergraphs
    n,      \* SpecGen: the loop variable of line 174
    pending,\* SpecGen: the candidates combinations() has not yielded yet
    reps_by_hash,
            \* SpecGen: the dict of line 171, as <<hash, bucket>> entries
    out,    \* SpecGen: the returned list
    pc      \* SpecGen: where the call stands

varsHG == <<H, ret, Hq>>
varsIso == <<H1, H2, res>>
varsGen == <<k, alpha, max_vertices, require_no_isolated, n, pending, reps_by_hash, out, pc>>
vars == <<H, ret, Hq, H1, H2, res,
          k, alpha, max_vertices, require_no_isolated, n, pending, reps_by_hash, out, pc>>

----------------------------------------------------------------------------
(* Bounds of the model.                                                    *)

\* vertex labels are 1 .. MaxLabel
MaxLabel == 2
\* add_edge is offered while the object holds fewer than MaxEdges edges, and
\* edge lists given to the constructor hold at most MaxEdges entries
MaxEdges == 2
\* partitions given to quotient hold at most MaxBlocks blocks
MaxBlocks == 2

Labels == 1 .. MaxLabel

None == <<>>
Some(x) == <<x>>

\* the keyword-argument dicts offered to add_edge: {} and {"w": 1}
EmptyDict == [key \in {} |-> 0]
AttrDicts == {EmptyDict, [key \in {"w"} |-> 1]}

Range(s) == {s[i] : i \in 1 .. Len(s)}

\* all sequences over S of length 0 .. n
RECURSIVE SeqsUpTo(_, _)
SeqsUpTo(S, len) ==
    IF len = 0 THEN {<<>>}
    ELSE LET shorter == SeqsUpTo(S, len - 1)
         IN  shorter \cup {Append(s, x) : s \in {t \in shorter : Len(t) = len - 1}, x \in S}

----------------------------------------------------------------------------
(* hypergraph.py                                                           *)

\* the loop of __init__ over the given edges (lines 22-29): obj is the object
\* so far; the result has exc = "EmptyEdge" when an empty edge was met
RECURSIVE InitEdgesLoop(_, _)
InitEdgesLoop(obj, es) ==
    IF es = <<>> THEN [obj |-> obj, exc |-> ""]
    ELSE LET fe == Head(es)
         IN  IF fe = {} THEN [obj |-> obj, exc |-> "EmptyEdge"]
             ELSE IF fe \in obj.edge_set THEN InitEdgesLoop(obj, Tail(es))
             ELSE InitEdgesLoop([obj EXCEPT !.edge_set = @ \cup {fe},
                                            !.edges = Append(@, fe)],
                                Tail(es))

\* Hypergraph.__init__(vertices, edges, vertex_attrs=None, edge_attrs):
\* every argument is optional (None or Some).  Returns [obj, exc]; obj is
\* meaningful only when exc = "".
Hypergraph__init__(vertices_arg, edges_arg, edge_attrs_arg) ==
    LET obj0 == [vertices |-> IF vertices_arg # None THEN vertices_arg[1] ELSE {},
                 edges |-> <<>>,
                 edge_attrs |-> <<>>,
                 edge_set |-> {}]
        looped == IF edges_arg # None THEN InitEdgesLoop(obj0, edges_arg[1])
                  ELSE [obj |-> obj0, exc |-> ""]
        obj1 == looped.obj
    IN  IF looped.exc # "" THEN looped
        ELSE IF edge_attrs_arg # None /\ Len(edge_attrs_arg[1]) # Len(obj1.edges)
             THEN [obj |-> obj1, exc |-> "AttrLen"]
        ELSE LET attrs == IF edge_attrs_arg = None
                          THEN [i \in 1 .. Len(obj1.edges) |-> EmptyDict]
                          ELSE edge_attrs_arg[1]
             IN  [obj |-> [obj1 EXCEPT !.edge_attrs = attrs,
                                       !.vertices = @ \cup UNION Range(obj1.edges)],
                  exc |-> ""]

\* Hypergraph.from_edges(edge_sets, edge_attrs=None)
from_edges(edge_sets, edge_attrs_arg) ==
    IF \E i \in 1 .. Len(edge_sets) : edge_sets[i] = {}
    THEN [obj |-> None, exc |-> "EmptyEdge"]
    ELSE Hypergraph__init__(None, Some(edge_sets), edge_attrs_arg)

\* Hypergraph.add_vertex(v): the object afterwards
add_vertex(self, v) == [self EXCEPT !.vertices = @ \cup {v}]

\* add_edge without the membership test of line 60
add_edge_NoDedup(self, nodes, attrs) ==
    IF nodes = {} THEN [obj |-> self, exc |-> "EmptyEdge", val |-> None]
    ELSE [obj |-> [vertices |-> self.vertices \cup nodes,
                   edges |-> Append(self.edges, nodes),
                   edge_attrs |-> Append(self.edge_attrs, attrs),
                   edge_set |-> self.edge_set \cup {nodes}],
          exc |-> "", val |-> Some(Len(self.edges))]

\* add_edge that returns len(self.edges) without the "- 1" of line 66
add_edge_ReturnsLen(self, nodes, attrs) ==
    IF nodes = {} THEN [obj |-> self, exc |-> "EmptyEdge", val |-> None]
    ELSE IF nodes \in self.edge_set THEN [obj |-> self, exc |-> "", val |-> None]
    ELSE [obj |-> [vertices |-> self.vertices \cup nodes,
                   edges |-> Append(self.edges, nodes),
                   edge_attrs |-> Append(self.edge_attrs, attrs),
                   edge_set |-> self.edge_set \cup {nodes}],
          exc |-> "", val |-> Some(Len(self.edges) + 1)]

\* Hypergraph.add_edge(nodes, **attrs): [obj, exc, val], val the returned
\* value (None, or Some(index) with Python's 0-based index)
add_edge(self, nodes, attrs) ==
    LET e == nodes
    IN  IF e = {} THEN [obj |-> self, exc |-> "EmptyEdge", val |-> None]
        ELSE IF e \in self.edge_set THEN [obj |-> self, exc |-> "", val |-> None]
        ELSE [obj |-> [vertices |-> self.vertices \cup e,
                       edges |-> Append(self.edges, e),
                       edge_attrs |-> Append(self.edge_attrs, attrs),
                       edge_set |-> self.edge_set \cup {e}],
              exc |-> "", val |-> Some(Len(self.edges))]

----------------------------------------------------------------------------
(* partitions.py                                                           *)

\* normalize_partition(partition): [blocks, exc]
normalize_partition(partition) ==
    IF \E i \in 1 .. Len(partition) : partition[i] = {}
    THEN [blocks |-> <<>>, exc |-> "EmptyBlock"]
    ELSE [blocks |-> partition, exc |-> ""]

\* the loop of validate_partition (lines 13-17): "NotDisjoint" when a block
\* meets the union of the blocks before it, else the union of all blocks
RECURSIVE ValidateLoop(_, _)
ValidateLoop(blocks, union) ==
    IF blocks = <<>> THEN [union |-> union, exc |-> ""]
    ELSE IF union \cap Head(blocks) # {} THEN [union |-> union, exc |-> "NotDisjoint"]
    ELSE ValidateLoop(Tail(blocks), union \cup Head(blocks))

\* validate_partition without the disjointness test of line 15
validate_partition_NoDisjoint(blocks, vertices) ==
    IF UNION Range(blocks) # vertices THEN "NotCover" ELSE ""

\* validate_partition(blocks, vertices): the kind of the error raised, or ""
validate_partition(blocks, vertices) ==
    LET looped == ValidateLoop(blocks, {})
    IN  IF looped.exc # "" THEN looped.exc
        ELSE IF looped.union # vertices THEN "NotCover"
        ELSE ""

\* vertex_to_block_map that maps every vertex to the first block
vertex_to_block_map_First(blocks) ==
    [v \in UNION Range(blocks) |-> blocks[1]]

\* vertex_to_block_map(blocks): a later block overwrites an earlier one
vertex_to_block_map(blocks) ==
    [v \in UNION Range(blocks) |->
        LET last == CHOOSE i \in 1 .. Len(blocks) :
                        /\ v \in blocks[i]
                        /\ \A j \in (i + 1) .. Len(blocks) : v \notin blocks[j]
        IN  blocks[last]]

\* the loop of quotient over self.edges (lines 105-107)
RECURSIVE QuotientLoop(_, _, _)
QuotientLoop(hq, es, v2blk) ==
    IF es = <<>> THEN hq
    ELSE LET q_edge == {v2blk[v] : v \in Head(es)}
         IN  QuotientLoop(add_edge(hq, q_edge, EmptyDict).obj, Tail(es), v2blk)

\* Hypergraph.quotient(partition): [val, exc], val = Some(Hq) or None
quotient(self, partition) ==
    LET norm == normalize_partition(partition)
        bad == IF norm.exc # "" THEN norm.exc
               ELSE validate_partition(norm.blocks, self.vertices)
    IN  IF bad # "" THEN [val |-> None, exc |-> bad]
        ELSE LET v2blk == vertex_to_block_map(norm.blocks)
                 hq0 == Hypergraph__init__(Some(Range(norm.blocks)), Some(<<>>),
                                           Some(<<>>)).obj
             IN  [val |-> Some(QuotientLoop(hq0, self.edges, v2blk)), exc |-> ""]

----------------------------------------------------------------------------
(* isomorphism.py                                                          *)
(*                                                                         *)
(* A networkx Graph is [nodes, attr, adj]: the nodes in insertion order,   *)
(* each node's attribute dict, and the edges as two-element sets of nodes. *)
(* A node is <<"v", label>> or <<"e", eid>>, eid being Python's 0-based    *)
(* index of the edge.                                                      *)

\* the elements of a set of integers in ascending order, taken as the order
\* in which "for v in H.vertices" meets them; the order only decides the order
\* in which the matcher yields its mappings
RECURSIVE SortedSeq(_)
SortedSeq(S) ==
    IF S = {} THEN <<>>
    ELSE LET m == CHOOSE x \in S : \A y \in S : x <= y
         IN  <<m>> \o SortedSeq(S \ {m})

\* node_match_bipartite that accepts every pair of nodes
node_match_bipartite_Any(a, b) == TRUE

\* node_match_bipartite(a, b)
node_match_bipartite(a, b) == a.bipartite = b.bipartite

\* _node_match(a, b) of isomorphism_classes.py
_node_match(a, b) ==
    IF a.bipartite # b.bipartite THEN FALSE
    ELSE IF a.bipartite = 1 THEN a.size = b.size
    ELSE TRUE

\* the node_match callback a GraphMatcher was built with
NodeMatch(node_match, a, b) ==
    IF node_match = "node_match_bipartite" THEN node_match_bipartite(a, b)
    ELSE _node_match(a, b)

VNode(v) == <<"v", v>>
ENode(eid) == <<"e", eid>>

\* to_bipartite_graph that adds only the vertices met in some edge
to_bipartite_graph_NoIsolated(obj) ==
    LET vs == SortedSeq(UNION Range(obj.edges))
        m == Len(obj.edges)
    IN  [nodes |-> [i \in 1 .. Len(vs) |-> VNode(vs[i])] \o [i \in 1 .. m |-> ENode(i - 1)],
         attr |-> [x \in {VNode(v) : v \in UNION Range(obj.edges)} \cup {ENode(i - 1) : i \in 1 .. m} |->
                      IF x[1] = "v" THEN [bipartite |-> 0, size |-> None]
                      ELSE [bipartite |-> 1, size |-> Some(Cardinality(obj.edges[x[2] + 1]))]],
         adj |-> UNION {{{ENode(i - 1), VNode(v)} : v \in obj.edges[i]} : i \in 1 .. m}]

\* to_bipartite_graph(H)
to_bipartite_graph(obj) ==
    LET vs == SortedSeq(obj.vertices)
        m == Len(obj.edges)
    IN  [nodes |-> [i \in 1 .. Len(vs) |-> VNode(vs[i])] \o [i \in 1 .. m |-> ENode(i - 1)],
         attr |-> [x \in {VNode(v) : v \in obj.vertices} \cup {ENode(i - 1) : i \in 1 .. m} |->
                      IF x[1] = "v" THEN [bipartite |-> 0, size |-> None]
                      ELSE [bipartite |-> 1, size |-> Some(Cardinality(obj.edges[x[2] + 1]))]],
         adj |-> UNION {{{ENode(i - 1), VNode(v)} : v \in obj.edges[i]} : i \in 1 .. m}]

Degree(G, x) == Cardinality({e \in G.adj : x \in e})

\* the nodes of G with degree d
DegreeCount(G, d) == Cardinality({i \in 1 .. Len(G.nodes) : Degree(G, G.nodes[i]) = d})

\* GraphMatcher: may n1 -> n2 extend the partial mapping core (G1 -> G2)?
\* The pair passes node_match and n1's edges to mapped nodes are exactly
\* n2's edges to their images.
GM_feasible(G1, G2, node_match, core, n1, n2) ==
    /\ NodeMatch(node_match, G1.attr[n1], G2.attr[n2])
    /\ \A m1 \in DOMAIN core : ({n1, m1} \in G1.adj) <=> ({n2, core[m1]} \in G2.adj)

\* GraphMatcher.match(): the complete mappings G1 -> G2 that extend core, in
\* depth-first order.  The next node of G2 is its first unmapped node; the
\* nodes of G1 are tried in insertion order.  GM_try runs over the
\* candidates cands for that node.
RECURSIVE GM_match(_, _, _, _)
RECURSIVE GM_try(_, _, _, _, _, _)
GM_match(G1, G2, node_match, core) ==
    IF Cardinality(DOMAIN core) = Len(G2.nodes) THEN <<core>>
    ELSE LET mapped2 == {core[x] : x \in DOMAIN core}
             n2 == G2.nodes[CHOOSE i \in 1 .. Len(G2.nodes) :
                                /\ G2.nodes[i] \notin mapped2
                                /\ \A j \in 1 .. (i - 1) : G2.nodes[j] \in mapped2]
             cands == SelectSeq(G1.nodes, LAMBDA x : x \notin DOMAIN core)
         IN  GM_try(G1, G2, node_match, core, n2, cands)

GM_try(G1, G2, node_match, core, n2, cands) ==
    IF cands = <<>> THEN <<>>
    ELSE LET n1 == Head(cands)
             here == IF GM_feasible(G1, G2, node_match, core, n1, n2)
                     THEN GM_match(G1, G2, node_match, core @@ (n1 :> n2))
                     ELSE <<>>
         IN  here \o GM_try(G1, G2, node_match, core, n2, Tail(cands))

\* GraphMatcher.isomorphisms_iter(): everything the iterator yields
GM_isomorphisms_iter(G1, G2, node_match) == GM_match(G1, G2, node_match, <<>>)

\* GraphMatcher.is_isomorphic(): equal orders, equal sorted degree lists,
\* and a first mapping from isomorphisms_iter
GM_is_isomorphic(G1, G2, node_match) ==
    /\ Len(G1.nodes) = Len(G2.nodes)
    /\ \A d \in 0 .. Len(G1.nodes) : DegreeCount(G1, d) = DegreeCount(G2, d)
    /\ GM_isomorphisms_iter(G1, G2, node_match) # <<>>

\* is_isomorphic(H1, H2, return_mapping): the values it can return, each
\* [iso, mapping].  mapping is None when none is returned, else Some(m); m is
\* the mapping the matcher found first, which may be any of those it can find.
is_isomorphic(h1, h2, return_mapping) ==
    LET B1 == to_bipartite_graph(h1)
        B2 == to_bipartite_graph(h2)
        iso == GM_is_isomorphic(B1, B2, "node_match_bipartite")
    IN  IF ~return_mapping \/ ~iso THEN {[iso |-> iso, mapping |-> None]}
        ELSE {[iso |-> iso, mapping |-> Some(m)] :
                  m \in Range(GM_isomorphisms_iter(B1, B2, "node_match_bipartite"))}

\* induced_vertex_mapping_from_incidence_mapping that keeps every key
induced_vertex_mapping_AllKeys(incidence_mapping) ==
    [x \in {key[2] : key \in DOMAIN incidence_mapping} |->
        LET any == CHOOSE key \in DOMAIN incidence_mapping : key[2] = x
        IN  incidence_mapping[any][2]]

\* induced_vertex_mapping_from_incidence_mapping(incidence_mapping)
induced_vertex_mapping_from_incidence_mapping(incidence_mapping) ==
    [x \in {key[2] : key \in {kk \in DOMAIN incidence_mapping : kk[1] = "v"}} |->
        incidence_mapping[VNode(x)][2]]

\* the loop of hypergraph_automorphisms (lines 51-56) over the mappings the
\* iterator has not yielded yet
RECURSIVE AutosLoop(_, _, _)
AutosLoop(iter, autos, limit) ==
    IF iter = <<>> THEN autos
    ELSE LET vmap == induced_vertex_mapping_from_incidence_mapping(Head(iter))
             autos2 == Append(autos, vmap)
         IN  IF limit # None /\ Len(autos2) >= limit[1] THEN autos2
             ELSE AutosLoop(Tail(iter), autos2, limit)

\* hypergraph_automorphisms that leaves the loop after the first mapping
hypergraph_automorphisms_FirstOnly(obj, limit) ==
    LET B == to_bipartite_graph(obj)
    IN  AutosLoop(GM_isomorphisms_iter(B, B, "node_match_bipartite"), <<>>, Some(1))

\* hypergraph_automorphisms(H, limit): limit is None or Some(number)
hypergraph_automorphisms(obj, limit) ==
    LET B == to_bipartite_graph(obj)
    IN  AutosLoop(GM_isomorphisms_iter(B, B, "node_match_bipartite"), <<>>, limit)

----------------------------------------------------------------------------
(* isomorphism_classes.py                                                  *)
(*                                                                         *)
(* An edge mask is a natural number; bit i stands for vertex i + 1.        *)

Pow2(i) == 2 ^ i

\* (m >> i) & 1
Bit(m, i) == (m \div Pow2(i)) % 2

\* a | b
RECURSIVE BitOr(_, _)
BitOr(a, b) ==
    IF a = 0 THEN b
    ELSE IF b = 0 THEN a
    ELSE (IF a % 2 = 1 \/ b % 2 = 1 THEN 1 ELSE 0) + 2 * BitOr(a \div 2, b \div 2)

\* _popcount whose loop of lines 12-14 runs once: the lowest bit only
_popcount_LowBit(x) == x % 2

\* _popcount(x)
RECURSIVE _popcount(_)
_popcount(x) == IF x = 0 THEN 0 ELSE (x % 2) + _popcount(x \div 2)

\* _mask_to_frozenset(mask, n)
_mask_to_frozenset(mask, nn) == {i + 1 : i \in {j \in 0 .. (nn - 1) : Bit(mask, j) = 1}}

\* _incidence_graph_from_masks(edge_masks, n)
_incidence_graph_from_masks(edge_masks, nn) ==
    LET m == Len(edge_masks)
    IN  [nodes |-> [i \in 1 .. nn |-> VNode(i)] \o [i \in 1 .. m |-> ENode(i - 1)],
         attr |-> [x \in {VNode(v) : v \in 1 .. nn} \cup {ENode(i - 1) : i \in 1 .. m} |->
                      IF x[1] = "v" THEN [bipartite |-> 0, size |-> None]
                      ELSE [bipartite |-> 1, size |-> Some(_popcount(edge_masks[x[2] + 1]))]],
         adj |-> UNION {{{ENode(e - 1), VNode(i + 1)} :
                            i \in {j \in 0 .. (nn - 1) : Bit(edge_masks[e], j) = 1}} :
                        e \in 1 .. m}]

Neighbors(G, x) == {y \in DOMAIN G.attr : {x, y} \in G.adj}

\* one Weisfeiler-Lehman step: a node's new label is its label with the
\* sorted labels of its neighbours, kept here as the pair of the label and the
\* bag of the neighbours' labels (the digest of the pair is not taken)
WLStep(G, labels) ==
    [x \in DOMAIN G.attr |->
        <<labels[x],
          [l \in {labels[y] : y \in Neighbors(G, x)} |->
              Cardinality({y \in Neighbors(G, x) : labels[y] = l})]>>]

\* Counter(node_labels.values())
WLCounter(G, labels) ==
    [l \in {labels[x] : x \in DOMAIN G.attr} |->
        Cardinality({x \in DOMAIN G.attr : labels[x] = l})]

\* _wl_hash_incidence_graph(B): weisfeiler_lehman_graph_hash with
\* node_attr = "bipartite" and its default of three iterations
_wl_hash_incidence_graph(B) ==
    LET l0 == [x \in DOMAIN B.attr |-> B.attr[x].bipartite]
        l1 == WLStep(B, l0)
        l2 == WLStep(B, l1)
        l3 == WLStep(B, l2)
    IN  <<WLCounter(B, l1), WLCounter(B, l2), WLCounter(B, l3)>>

\* _isomorphic_masks(edge_masks_a, n_a, edge_masks_b, n_b)
_isomorphic_masks(edge_masks_a, n_a, edge_masks_b, n_b) ==
    GM_is_isomorphic(_incidence_graph_from_masks(edge_masks_a, n_a),
                     _incidence_graph_from_masks(edge_masks_b, n_b),
                     "_node_match")

\* itertools.combinations(s, r): the r-element subsequences of s, in
\* lexicographic order of their positions
RECURSIVE combinations(_, _)
combinations(s, r) ==
    IF r = 0 THEN <<<<>>>>
    ELSE IF Len(s) < r THEN <<>>
    ELSE LET with == combinations(Tail(s), r - 1)
         IN  [i \in 1 .. Len(with) |-> <<Head(s)>> \o with[i]]
             \o combinations(Tail(s), r)

\* the mask of the index tuple comb (lines 186-188)
RECURSIVE MaskOf(_)
MaskOf(comb) ==
    IF comb = <<>> THEN 0 ELSE BitOr(Pow2(Head(comb)), MaskOf(Tail(comb)))

\* the list all_edges for n vertices (lines 183-189), sizes r .. max_edge_size
RECURSIVE AllEdgesFrom(_, _, _)
AllEdgesFrom(nn, r, max_edge_size) ==
    IF r > max_edge_size THEN <<>>
    ELSE LET combs == combinations([i \in 1 .. nn |-> i - 1], r)
         IN  [i \in 1 .. Len(combs) |-> MaskOf(combs[i])]
             \o AllEdgesFrom(nn, r + 1, max_edge_size)

Min(a, b) == IF a <= b THEN a ELSE b

all_edges(nn, a) == AllEdgesFrom(nn, 1, Min(a, nn))

\* the union of lines 200-202
RECURSIVE MaskUnion(_)
MaskUnion(edge_masks) ==
    IF edge_masks = <<>> THEN 0 ELSE BitOr(Head(edge_masks), MaskUnion(Tail(edge_masks)))

\* the filter of lines 199-204 that never rejects a candidate
Discarded_Never(edge_masks, nn, no_isolated) == FALSE

\* the filter of lines 199-204: is the candidate skipped?
Discarded(edge_masks, nn, no_isolated) ==
    no_isolated /\ MaskUnion(edge_masks) # Pow2(nn) - 1

\* the loop of lines 213-223 over a bucket: is the candidate new?
RECURSIVE IsNew(_, _, _)
IsNew(bucket, nn, edge_masks) ==
    IF bucket = <<>> THEN TRUE
    ELSE LET n_rep == Head(bucket)[1]
             masks_rep == Head(bucket)[2]
         IN  IF n_rep # nn THEN IsNew(Tail(bucket), nn, edge_masks)
             ELSE IF _isomorphic_masks(edge_masks, nn, masks_rep, n_rep) THEN FALSE
             ELSE IsNew(Tail(bucket), nn, edge_masks)

\* the position of hash h in the dict reps, 0 when it is no key
KeyIndex(reps, h) ==
    IF \E i \in 1 .. Len(reps) : reps[i][1] = h
    THEN CHOOSE i \in 1 .. Len(reps) : reps[i][1] = h
    ELSE 0

\* lines 206-227 for one candidate that passed the filter: the dict afterwards
Bucketed(reps, nn, edge_masks) ==
    LET h == _wl_hash_incidence_graph(_incidence_graph_from_masks(edge_masks, nn))
        at == KeyIndex(reps, h)
        reps1 == IF at = 0 THEN Append(reps, <<h, <<>>>>) ELSE reps
        pos == IF at = 0 THEN Len(reps1) ELSE at
        bucket == reps1[pos][2]
    IN  IF IsNew(bucket, nn, edge_masks)
        THEN [reps1 EXCEPT ![pos] = <<h, Append(bucket, <<nn, edge_masks>>)>>]
        ELSE reps1

\* lines 230-235: the representatives of one bucket as Hypergraph objects
RECURSIVE ConvertBucket(_)
ConvertBucket(bucket) ==
    IF bucket = <<>> THEN <<>>
    ELSE LET nn == Head(bucket)[1]
             edge_masks == Head(bucket)[2]
             es == [i \in 1 .. Len(edge_masks) |-> _mask_to_frozenset(edge_masks[i], nn)]
         IN  <<from_edges(es, None).obj>> \o ConvertBucket(Tail(bucket))

RECURSIVE ConvertAll(_)
ConvertAll(reps) ==
    IF reps = <<>> THEN <<>>
    ELSE ConvertBucket(Head(reps)[2]) \o ConvertAll(Tail(reps))

----------------------------------------------------------------------------
(* scripts/demo.py, demo1                                                  *)

\* H = Hypergraph.from_edges([{1, 2, 3}, {3, 4}, {2, 4}])
DemoH == from_edges(<<{1, 2, 3}, {3, 4}, {2, 4}>>, None).obj

\* tau = [{1, 2}, {3}, {4}]
DemoTau == <<{1, 2}, {3}, {4}>>

\* G = Hypergraph.from_edges([{"a", "b", "c"}, {"c", "d"}, {"b", "d"}]), the
\* labels "a", "b", "c", "d" written 101, 102, 103, 104
DemoG == from_edges(<<{101, 102, 103}, {103, 104}, {102, 104}>>, None).obj

----------------------------------------------------------------------------
(* SpecHG: one Hypergraph object under add_vertex and add_edge.            *)

\* ret is [op, arg, exc, val]: the call, its arguments (None where they are
\* not kept), the kind of the ValueError it raised and the value it returned
NoRet == [op |-> "none", arg |-> None, exc |-> "", val |-> None]

\* the variables of the other specifications, at rest
IdleHG == H = None /\ ret = NoRet /\ Hq = None
IdleIso == H1 = None /\ H2 = None /\ res = None
IdleGen ==
    /\ k = 0 /\ alpha = 0 /\ max_vertices = None /\ require_no_isolated = TRUE
    /\ n = 0 /\ pending = <<>> /\ reps_by_hash = <<>> /\ out = <<>> /\ pc = "idle"

\* the arguments given to the constructor
EdgeInputs == SeqsUpTo(SUBSET Labels, MaxEdges)

InitHG ==
    /\ \E vs \in {None} \cup {Some(S) : S \in SUBSET Labels}, es \in {None} \cup {Some(s) : s \in EdgeInputs} :
          LET made == Hypergraph__init__(vs, es, None)
          IN  /\ H = IF made.exc = "" THEN Some(made.obj) ELSE None
              /\ ret = [op |-> "__init__", arg |-> None, exc |-> made.exc, val |-> None]
    /\ Hq = None
    /\ IdleIso
    /\ IdleGen

AddVertex ==
    /\ H # None
    /\ \E v \in Labels :
          /\ H' = Some(add_vertex(H[1], v))
          /\ ret' = [op |-> "add_vertex", arg |-> Some(v), exc |-> "", val |-> None]
    /\ UNCHANGED <<Hq, varsIso, varsGen>>

AddEdge ==
    /\ H # None
    /\ Len(H[1].edges) < MaxEdges
    /\ \E nodes \in SUBSET Labels, attrs \in AttrDicts :
          LET r == add_edge(H[1], nodes, attrs)
          IN  /\ H' = Some(r.obj)
              /\ ret' = [op |-> "add_edge", arg |-> Some(nodes), exc |-> r.exc, val |-> r.val]
    /\ UNCHANGED <<Hq, varsIso, varsGen>>

NextHG == AddVertex \/ AddEdge

SpecHG == InitHG /\ [][NextHG]_vars

----------------------------------------------------------------------------
(* SpecQ: quotient calls on a constructed Hypergraph.                      *)

\* the partitions given to quotient: the bounded ones and demo1's
PartitionInputs == SeqsUpTo(SUBSET Labels, MaxBlocks) \cup {DemoTau}

\* H is a hypergraph built from bounded arguments, or demo1's
InitQ ==
    /\ \/ \E vs \in SUBSET Labels, es \in EdgeInputs :
             LET made == Hypergraph__init__(Some(vs), Some(es), None)
             IN  /\ made.exc = ""
                 /\ H = Some(made.obj)
       \/ H = Some(DemoH)
    /\ ret = NoRet
    /\ Hq = None
    /\ IdleIso
    /\ IdleGen

Quotient ==
    /\ H # None
    /\ ret = NoRet
    /\ \E partition \in PartitionInputs :
          LET r == quotient(H[1], partition)
          IN  /\ ret' = [op |-> "quotient", arg |-> None, exc |-> r.exc,
                           val |-> Some(partition)]
              /\ Hq' = r.val
    /\ UNCHANGED <<H, varsIso, varsGen>>

\* the caller drops the returned hypergraph
Discard ==
    /\ ret # NoRet
    /\ ret' = NoRet
    /\ Hq' = None
    /\ UNCHANGED <<H, varsIso, varsGen>>

NextQ == Quotient \/ Discard

SpecQ == InitQ /\ [][NextQ]_vars

----------------------------------------------------------------------------
(* SpecIso: the oracle called on two constructed hypergraphs.              *)

\* limit arguments are None or 0 .. MaxLimit
MaxLimit == 2

\* the hypergraphs the constructor can build from the bounded arguments
Hypergraphs ==
    {Hypergraph__init__(Some(vs), Some(es), None).obj :
        vs \in SUBSET Labels,
        es \in {s \in EdgeInputs : \A i \in 1 .. Len(s) : s[i] # {}}}

\* H1 is one of them or demo1's H; H2 is one of them or demo1's H or G
InitIso ==
    /\ H1 \in {Some(h) : h \in Hypergraphs \cup {DemoH}}
    /\ H2 = None
    /\ res = None
    /\ IdleHG
    /\ IdleGen

CallIsIsomorphic ==
    /\ res = None
    /\ \E h2 \in Hypergraphs \cup {DemoH, DemoG}, return_mapping \in BOOLEAN :
          \E r \in is_isomorphic(H1[1], h2, return_mapping) :
              /\ H2' = Some(h2)
              /\ res' = Some([op |-> "is_isomorphic", return_mapping |-> return_mapping,
                              iso |-> r.iso, mapping |-> r.mapping,
                              limit |-> None, autos |-> <<>>])
    /\ UNCHANGED <<H1, varsHG, varsGen>>

CallAutomorphisms ==
    /\ res = None
    /\ \E limit \in {None} \cup {Some(l) : l \in 0 .. MaxLimit} :
          res' = Some([op |-> "automorphisms", return_mapping |-> FALSE,
                       iso |-> FALSE, mapping |-> None,
                       limit |-> limit, autos |-> hypergraph_automorphisms(H1[1], limit)])
    /\ UNCHANGED <<H1, H2, varsHG, varsGen>>

NextIso == CallIsIsomorphic \/ CallAutomorphisms

SpecIso == InitIso /\ [][NextIso]_vars

----------------------------------------------------------------------------
(* SpecGen: one call of generate_nonisomorphic_hypergraphs.                *)

\* k is drawn from -1 .. MaxK, alpha from -1 .. MaxAlpha, max_vertices from
\* None and -1 .. MaxVertices
MaxK == 2
MaxAlpha == 2
MaxVertices == 3

InitGen ==
    /\ k \in -1 .. MaxK
    /\ alpha \in -1 .. MaxAlpha
    /\ max_vertices \in {None} \cup {Some(m) : m \in -1 .. MaxVertices}
    \* the default k * alpha is taken only where it stays within MaxVertices
    /\ max_vertices = None => k * alpha <= MaxVertices
    /\ require_no_isolated \in BOOLEAN
    /\ n = 0 /\ pending = <<>> /\ reps_by_hash = <<>> /\ out = <<>>
    /\ pc = "call"
    /\ IdleHG
    /\ IdleIso

\* GenEnter with the test of max_vertices (line 165) ahead of the argument
\* checks of lines 158-161
GenEnter_ZeroFirst ==
    /\ pc = "call"
    /\ IF max_vertices # None /\ max_vertices[1] <= 0
       THEN pc' = "returned" /\ UNCHANGED <<max_vertices, n>>
       ELSE IF k <= 0 \/ alpha <= 0
       THEN pc' = "raised" /\ UNCHANGED <<max_vertices, n>>
       ELSE LET mv == IF max_vertices = None THEN k * alpha ELSE max_vertices[1]
            IN  /\ max_vertices' = Some(mv)
                /\ pc' = "for_n" /\ n' = 1
    /\ UNCHANGED <<k, alpha, require_no_isolated, pending, reps_by_hash, out>>
    /\ UNCHANGED <<varsHG, varsIso>>

\* lines 158-174: the argument checks, the default and the first n
GenEnter ==
    /\ pc = "call"
    /\ IF k <= 0 \/ alpha <= 0
       THEN pc' = "raised" /\ UNCHANGED <<max_vertices, n>>
       ELSE LET mv == IF max_vertices = None THEN k * alpha ELSE max_vertices[1]
            IN  /\ max_vertices' = Some(mv)
                /\ IF mv <= 0 THEN pc' = "returned" /\ UNCHANGED n
                   ELSE pc' = "for_n" /\ n' = 1
    /\ UNCHANGED <<k, alpha, require_no_isolated, pending, reps_by_hash, out>>
    /\ UNCHANGED <<varsHG, varsIso>>

\* lines 174-196: one pass of the loop over n up to the first candidate, or
\* the conversion of lines 230-237 when the loop is over
GenForN ==
    /\ pc = "for_n"
    /\ IF n > max_vertices[1]
       THEN /\ out' = ConvertAll(reps_by_hash)
            /\ pc' = "returned"
            /\ UNCHANGED <<n, pending>>
       ELSE LET edges_n == all_edges(n, alpha)
            IN  IF Len(edges_n) < k
                THEN n' = n + 1 /\ UNCHANGED <<pending, pc, out>>
                ELSE /\ pending' = combinations(edges_n, k)
                     /\ pc' = "for_masks"
                     /\ UNCHANGED <<n, out>>
    /\ UNCHANGED <<k, alpha, max_vertices, require_no_isolated, reps_by_hash>>
    /\ UNCHANGED <<varsHG, varsIso>>

\* lines 196-227: one candidate, or the end of the loop over candidates
GenForMasks ==
    /\ pc = "for_masks"
    /\ IF pending = <<>>
       THEN n' = n + 1 /\ pc' = "for_n" /\ UNCHANGED <<pending, reps_by_hash>>
       ELSE /\ pending' = Tail(pending)
            /\ reps_by_hash' = IF Discarded(Head(pending), n, require_no_isolated)
                               THEN reps_by_hash
                               ELSE Bucketed(reps_by_hash, n, Head(pending))
            /\ UNCHANGED <<n, pc>>
    /\ UNCHANGED <<k, alpha, max_vertices, require_no_isolated, out>>
    /\ UNCHANGED <<varsHG, varsIso>>

NextGen == GenEnter \/ GenForN \/ GenForMasks

SpecGen == InitGen /\ [][NextGen]_vars

----------------------------------------------------------------------------
(* SpecNew: one construction, by Hypergraph(...) or Hypergraph.from_edges, *)
(* from an edge list and a per-edge attribute list.                        *)

\* the edge_attrs lists given to the constructor
AttrInputs == SeqsUpTo(AttrDicts, MaxEdges)

InitNew ==
    /\ IdleHG
    /\ IdleIso
    /\ IdleGen

\* Hypergraph(vertices=vs, edges=es, edge_attrs=ea)
New ==
    /\ ret = NoRet
    /\ \E vs \in {None} \cup {Some(S) : S \in SUBSET Labels},
          es \in {None} \cup {Some(s) : s \in EdgeInputs},
          ea \in {None} \cup {Some(s) : s \in AttrInputs} :
          LET made == Hypergraph__init__(vs, es, ea)
          IN  /\ H' = IF made.exc = "" THEN Some(made.obj) ELSE None
              /\ ret' = [op |-> "__init__",
                         arg |-> Some([vertices |-> vs, edges |-> es, edge_attrs |-> ea]),
                         exc |-> made.exc, val |-> None]
    /\ UNCHANGED <<Hq, varsIso, varsGen>>

\* Hypergraph.from_edges(es, edge_attrs=ea)
NewFromEdges ==
    /\ ret = NoRet
    /\ \E es \in EdgeInputs, ea \in {None} \cup {Some(s) : s \in AttrInputs} :
          LET made == from_edges(es, ea)
          IN  /\ H' = IF made.exc = "" THEN Some(made.obj) ELSE None
              /\ ret' = [op |-> "from_edges",
                         arg |-> Some([vertices |-> None, edges |-> Some(es), edge_attrs |-> ea]),
                         exc |-> made.exc, val |-> None]
    /\ UNCHANGED <<Hq, varsIso, varsGen>>

NextNew == New \/ NewFromEdges

SpecNew == InitNew /\ [][NextNew]_vars

----------------------------------------------------------------------------
(* SpecMasks: the enumerator's exact check and the public is_isomorphic on *)
(* the same two hypergraphs, each given by its number of vertices and its  *)
(* edge masks.                                                             *)

\* the mask lists over nn vertices: up to MaxEdges distinct masks, each with
\* a bit set and no bit beyond bit nn - 1
MaskLists(nn) ==
    {s \in SeqsUpTo(1 .. (Pow2(nn) - 1), MaxEdges) :
        \A i, j \in 1 .. Len(s) : i # j => s[i] # s[j]}

\* the Hypergraph with vertices 1 .. nn and the edges the masks stand for:
\* Hypergraph(vertices=range(1, nn + 1),
\*            edges=[_mask_to_frozenset(m, nn) for m in edge_masks])
HypergraphOfMasks(edge_masks, nn) ==
    Hypergraph__init__(Some(1 .. nn),
                       Some([i \in 1 .. Len(edge_masks) |->
                                _mask_to_frozenset(edge_masks[i], nn)]),
                       None).obj

\* res is [op, edge_masks_a, n_a, edge_masks_b, n_b, exact, public]; exact
\* and public are the answers of the two checks, None before the call
InitMasks ==
    /\ \E n_a \in 0 .. MaxLabel, n_b \in 0 .. MaxLabel :
          \E edge_masks_a \in MaskLists(n_a), edge_masks_b \in MaskLists(n_b) :
              /\ H1 = Some(HypergraphOfMasks(edge_masks_a, n_a))
              /\ H2 = Some(HypergraphOfMasks(edge_masks_b, n_b))
              /\ res = Some([op |-> "masks",
                             edge_masks_a |-> edge_masks_a, n_a |-> n_a,
                             edge_masks_b |-> edge_masks_b, n_b |-> n_b,
                             exact |-> None, public |-> None])
    /\ IdleHG
    /\ IdleGen

\* _isomorphic_masks(edge_masks_a, n_a, edge_masks_b, n_b)
CallIsomorphicMasks ==
    /\ res # None /\ res[1].op = "masks" /\ res[1].exact = None
    /\ res' = Some([res[1] EXCEPT !.exact =
                       Some(_isomorphic_masks(res[1].edge_masks_a, res[1].n_a,
                                              res[1].edge_masks_b, res[1].n_b))])
    /\ UNCHANGED <<H1, H2, varsHG, varsGen>>

\* is_isomorphic(H1, H2)
CallIsIsomorphicOnMasks ==
    /\ res # None /\ res[1].op = "masks" /\ res[1].public = None
    /\ \E r \in is_isomorphic(H1[1], H2[1], FALSE) :
          res' = Some([res[1] EXCEPT !.public = Some(r.iso)])
    /\ UNCHANGED <<H1, H2, varsHG, varsGen>>

NextMasks == CallIsomorphicMasks \/ CallIsIsomorphicOnMasks

SpecMasks == InitMasks /\ [][NextMasks]_vars

----------------------------------------------------------------------------
(* Claims about the Hypergraph object (SpecHG).                            *)

\* the edges of obj, as a set
EdgesOf(obj) == Range(obj.edges)

HypergraphInvariant(obj) ==
    /\ \A i \in 1 .. Len(obj.edges) : obj.edges[i] # {}
    /\ \A i, j \in 1 .. Len(obj.edges) : i # j => obj.edges[i] # obj.edges[j]
    /\ UNION EdgesOf(obj) \subseteq obj.vertices

\* nothing present in H is removed or moved by the step
NothingRemoved ==
    /\ H' # None
    /\ H[1].vertices \subseteq H'[1].vertices
    /\ Len(H[1].edges) <= Len(H'[1].edges)
    /\ \A i \in 1 .. Len(H[1].edges) : H'[1].edges[i] = H[1].edges[i]

\* C8: after construction and any sequence of add_vertex and add_edge calls
\* (successful, no-op or failing) no stored edge is empty, stored edges are
\* pairwise distinct, the vertex set contains every vertex of every edge, and
\* no call removes a vertex or an edge or changes an edge's index.
C8_HypergraphInvariants ==
    /\ [](H # None => HypergraphInvariant(H[1]))
    /\ [][H # None => NothingRemoved]_vars

\* an add_edge call was a no-op on an object that holds MaxEdges - 1 or more
\* edges and a vertex in no edge
C8_Witness ==
    /\ H # None
    /\ ret.op = "add_edge" /\ ret.exc = "" /\ ret.val = None
    /\ Len(H[1].edges) >= 1
    /\ H[1].vertices # UNION EdgesOf(H[1])

----------------------------------------------------------------------------
(* Claims about quotient (SpecQ).                                          *)

\* the partition given to the last quotient call
GivenPartition == ret.val[1]

BlocksOverlap(p) == \E i, j \in 1 .. Len(p) : i # j /\ p[i] \cap p[j] # {}

\* p is an exact disjoint cover of V by non-empty blocks
IsExactPartition(p, V) ==
    /\ \A i \in 1 .. Len(p) : p[i] # {}
    /\ ~BlocksOverlap(p)
    /\ UNION Range(p) = V

\* the image of edge e under the vertex-to-block map of exact partition p
BlockImage(p, e) == {p[i] : i \in {j \in 1 .. Len(p) : p[j] \cap e # {}}}

\* the first position in es of an edge whose image under p is q
FirstPreimage(p, es, q) ==
    CHOOSE i \in 1 .. Len(es) :
        /\ BlockImage(p, es[i]) = q
        /\ \A j \in 1 .. (i - 1) : BlockImage(p, es[j]) # q

QuotientIsImage(p, obj, hq) ==
    /\ Cardinality(hq.vertices) = Len(p)
    /\ hq.vertices = Range(p)
    /\ EdgesOf(hq) = {BlockImage(p, e) : e \in EdgesOf(obj)}
    /\ \A i, j \in 1 .. Len(hq.edges) :
          i < j => FirstPreimage(p, obj.edges, hq.edges[i])
                     < FirstPreimage(p, obj.edges, hq.edges[j])

\* C9: for an exact partition of V(H) into m disjoint non-empty blocks,
\* quotient returns a hypergraph with exactly m vertices (the blocks) whose
\* edges are the images of H's edges under the vertex-to-block map, equal
\* images collapsed into one edge in first-occurrence order; H is unchanged.
C9_QuotientOfExactPartition ==
    /\ [](ret.op = "quotient" /\ IsExactPartition(GivenPartition, H[1].vertices)
            => /\ Hq # None
               /\ QuotientIsImage(GivenPartition, H[1], Hq[1]))
    /\ [][ret'.op = "quotient" => H' = H]_vars

\* a quotient that collapsed two edges into one
C9_Witness ==
    /\ ret.op = "quotient" /\ Hq # None
    /\ IsExactPartition(GivenPartition, H[1].vertices)
    /\ Len(H[1].edges) = 2
    /\ Len(Hq[1].edges) = 1

\* the ValueErrors raised by partitions.py (InvalidPartition)
InvalidPartition == {"EmptyBlock", "NotDisjoint", "NotCover"}

\* C10: quotient fails with InvalidPartition, returns no hypergraph and
\* leaves H unchanged whenever two blocks overlap or the union of the blocks
\* differs from V(H); it never fails for an exact disjoint cover by
\* non-empty blocks.
C10_QuotientFailure ==
    /\ [](ret.op = "quotient" =>
            /\ (BlocksOverlap(GivenPartition) \/ UNION Range(GivenPartition) # H[1].vertices)
                  => ret.exc \in InvalidPartition /\ Hq = None
            /\ IsExactPartition(GivenPartition, H[1].vertices) => ret.exc = "")
    /\ [][ret'.op = "quotient" /\ ret'.exc # "" => H' = H]_vars

\* a quotient call failed on overlapping blocks whose union is V(H)
C10_Witness ==
    /\ ret.op = "quotient" /\ ret.exc = "NotDisjoint" /\ Hq = None
    /\ BlocksOverlap(GivenPartition)
    /\ UNION Range(GivenPartition) = H[1].vertices
    /\ H[1].vertices # {}

----------------------------------------------------------------------------
(* Claims about the oracle (SpecIso).                                      *)

Image(f, e) == {f[v] : v \in e}

Bijections(A, B) ==
    IF Cardinality(A) # Cardinality(B) THEN {}
    ELSE {f \in [A -> B] : /\ \A x, y \in A : x # y => f[x] # f[y]
                           /\ {f[x] : x \in A} = B}

\* the bijections V1 -> V2 that map the set of edges E1 onto the set E2
SetIsomorphisms(V1, E1, V2, E2) ==
    {f \in Bijections(V1, V2) : {Image(f, e) : e \in E1} = E2}

\* the bijections V(h1) -> V(h2) that map the edge set of h1 onto that of h2
HypergraphIsomorphisms(h1, h2) ==
    SetIsomorphisms(h1.vertices, EdgesOf(h1), h2.vertices, EdgesOf(h2))

\* Hypergraph.degree(v)
degree(self, v) == Cardinality({i \in 1 .. Len(self.edges) : v \in self.edges[i]})

IsoCalled == res # None /\ res[1].op = "is_isomorphic"
AutosCalled == res # None /\ res[1].op = "automorphisms"

\* C1: is_isomorphic(H1, H2) is true exactly when some bijection from V(H1)
\* (isolated vertices included) onto V(H2) maps the set of hyperedges of H1
\* onto the set of hyperedges of H2.
C1_IsIsomorphicIffBijection ==
    IsoCalled => (res[1].iso <=> HypergraphIsomorphisms(H1[1], H2[1]) # {})

\* is_isomorphic answered true for two different hypergraphs that have an
\* edge and an isolated vertex
C1_Witness ==
    /\ IsoCalled /\ res[1].iso
    /\ H1 # H2
    /\ H1[1].edges # <<>>
    /\ H1[1].vertices # UNION EdgesOf(H1[1])

\* C4: automorphisms(H) without a limit returns exactly the permutations of
\* V(H) that map the hyperedge set of H onto itself, each once, and the
\* identity on V(H) is one of them.
C4_AutomorphismsExact ==
    AutosCalled /\ res[1].limit = None =>
        /\ Range(res[1].autos) = HypergraphIsomorphisms(H1[1], H1[1])
        /\ Len(res[1].autos) = Cardinality(Range(res[1].autos))
        /\ [v \in H1[1].vertices |-> v] \in Range(res[1].autos)

\* automorphisms without a limit returned fewer mappings than there are
\* permutations of the vertices, for a hypergraph with two edges
C4_Witness ==
    /\ AutosCalled /\ res[1].limit = None
    /\ Len(H1[1].edges) = 2
    /\ Len(res[1].autos) < Cardinality(Bijections(H1[1].vertices, H1[1].vertices))

\* C5: automorphisms(H, limit) with a limit given never holds more than
\* limit mappings, and holds exactly limit mappings whenever H has at least
\* limit automorphisms.
C5_LimitRespected ==
    AutosCalled /\ res[1].limit # None =>
        /\ Len(res[1].autos) <= res[1].limit[1]
        /\ Cardinality(HypergraphIsomorphisms(H1[1], H1[1])) >= res[1].limit[1]
              => Len(res[1].autos) = res[1].limit[1]

\* C6: when is_isomorphic is called with a mapping requested and succeeds,
\* the induced vertex mapping is a bijection V(H1) -> V(H2) under which the
\* image of every hyperedge of H1 is a hyperedge of H2 and vertex degrees
\* are preserved; when the call fails the mapping is absent.
C6_InducedMappingIsIsomorphism ==
    IsoCalled /\ res[1].return_mapping =>
        IF res[1].iso
        THEN /\ res[1].mapping # None
             /\ LET vmap == induced_vertex_mapping_from_incidence_mapping(res[1].mapping[1])
                IN  /\ vmap \in Bijections(H1[1].vertices, H2[1].vertices)
                    /\ \A e \in EdgesOf(H1[1]) : Image(vmap, e) \in EdgesOf(H2[1])
                    /\ \A v \in H1[1].vertices : degree(H1[1], v) = degree(H2[1], vmap[v])
        ELSE res[1].mapping = None

\* demo1: a mapping was returned for H = {{1,2,3},{3,4},{2,4}} and
\* G = {{a,b,c},{c,d},{b,d}}, and it sends the vertices of degree 2 of H
\* onto those of G
C6_Witness ==
    /\ IsoCalled /\ res[1].return_mapping /\ res[1].iso
    /\ H1[1] = DemoH /\ H2[1] = DemoG
    /\ LET vmap == induced_vertex_mapping_from_incidence_mapping(res[1].mapping[1])
       IN  {vmap[v] : v \in {2, 3, 4}} = {102, 103, 104}

\* C7: is_isomorphic(H, H) is true for every H (also one with no edges or no
\* vertices), and the vertex map induced from the mapping it returns is an
\* element of automorphisms(H).
C7_Reflexive ==
    IsoCalled /\ H2 = H1 =>
        /\ res[1].iso
        /\ res[1].return_mapping =>
              /\ res[1].mapping # None
              /\ induced_vertex_mapping_from_incidence_mapping(res[1].mapping[1])
                    \in Range(hypergraph_automorphisms(H1[1], None))

\* is_isomorphic(H, H) returned a mapping that is not the identity
C7_Witness ==
    /\ IsoCalled /\ H2 = H1 /\ res[1].iso /\ res[1].return_mapping
    /\ induced_vertex_mapping_from_incidence_mapping(res[1].mapping[1])
         # [v \in H1[1].vertices |-> v]

----------------------------------------------------------------------------
(* Claims about the enumerator (SpecGen).                                  *)

\* the answer of is_isomorphic(h1, h2)
Isomorphic(h1, h2) == \E r \in is_isomorphic(h1, h2, FALSE) : r.iso

\* C2: for either value of require_no_isolated, no two distinct elements of
\* the list generate returns are isomorphic as decided by is_isomorphic.
C2_NoTwoIsomorphic ==
    pc = "returned" =>
        \A i, j \in 1 .. Len(out) : i # j => ~Isomorphic(out[i], out[j])

\* the same, for calls with require_no_isolated true only
C2_NoTwoIsomorphicNoIsolated ==
    pc = "returned" /\ require_no_isolated =>
        \A i, j \in 1 .. Len(out) : i # j => ~Isomorphic(out[i], out[j])

\* the sets of kk distinct edges over labels 1 .. MaxVertices, each of size
\* 1 .. a, that touch at most mv vertices: the simple hypergraphs without
\* isolated vertex of the class generate(kk, a, mv) enumerates
EdgeFamily(kk, a, mv) ==
    {E \in SUBSET {e \in SUBSET (1 .. MaxVertices) : e # {} /\ Cardinality(e) <= a} :
        /\ Cardinality(E) = kk
        /\ Cardinality(UNION E) <= mv}

InFamily(obj, kk, a, mv) ==
    /\ Len(obj.edges) = kk
    /\ Cardinality(EdgesOf(obj)) = kk
    /\ \A e \in EdgesOf(obj) : Cardinality(e) \in 1 .. a
    /\ obj.vertices = UNION EdgesOf(obj)
    /\ Cardinality(obj.vertices) <= mv

\* C3: with require_no_isolated true and k, alpha, max_vertices >= 1, every
\* simple hypergraph with exactly k distinct edges of size 1 .. alpha, no
\* isolated vertex and at most max_vertices vertices is isomorphic to exactly
\* one returned element, every returned element is such a hypergraph, and
\* generate(2, 1, 2) returns exactly the hypergraph {{1}, {2}}.
C3_OnePerClass ==
    pc = "returned" /\ require_no_isolated /\ k >= 1 /\ alpha >= 1 /\ max_vertices[1] >= 1 =>
        /\ \A E \in EdgeFamily(k, alpha, max_vertices[1]) :
              Cardinality({i \in 1 .. Len(out) :
                  SetIsomorphisms(UNION E, E, out[i].vertices, EdgesOf(out[i])) # {}}) = 1
        /\ \A i \in 1 .. Len(out) : InFamily(out[i], k, alpha, max_vertices[1])
        /\ k = 2 /\ alpha = 1 /\ max_vertices[1] = 2 =>
              /\ Len(out) = 1
              /\ out[1].vertices = {1, 2}
              /\ EdgesOf(out[1]) = {{1}, {2}}

\* a call with k = 2 and alpha = 2 returned after it met, at n = 2, two
\* candidates of one class
C3_Witness ==
    /\ pc = "returned" /\ require_no_isolated
    /\ k = 2 /\ alpha = 2 /\ max_vertices[1] >= 2
    /\ Cardinality({i \in 1 .. Len(out) : Cardinality(out[i].vertices) = 2}) = 2


----------------------------------------------------------------------------
(* Claims about the argument checks of the generator (SpecGen).            *)

\* C11: once the call has passed its entry, it has raised ValueError
\* whenever k <= 0 or alpha <= 0, whatever max_vertices is (and it raises in
\* no other case); with k >= 1, alpha >= 1 and max_vertices <= 0 it has
\* returned the empty list without raising.
C11_ArgumentChecks ==
    pc # "call" =>
        /\ (pc = "raised") <=> (k <= 0 \/ alpha <= 0)
        /\ (k >= 1 /\ alpha >= 1 /\ max_vertices # None /\ max_vertices[1] <= 0)
              => (pc = "returned" /\ out = <<>> /\ reps_by_hash = <<>>)

\* the call raised for alpha <= 0 although k >= 1 and max_vertices <= 0
C11_Witness ==
    /\ pc = "raised"
    /\ k >= 1 /\ alpha <= 0
    /\ max_vertices # None /\ max_vertices[1] <= 0

\* the call with k >= 1, alpha >= 1 and max_vertices <= 0 returned
C11_WitnessZero ==
    /\ pc = "returned"
    /\ k >= 1 /\ alpha >= 1
    /\ max_vertices # None /\ max_vertices[1] <= 0
    /\ out = <<>>


----------------------------------------------------------------------------
(* Claims about construction with edge attributes (SpecNew).               *)

\* a construction was made from an edge list without an empty edge together
\* with an edge_attrs list
BuiltWithAttrs ==
    /\ ret.op \in {"__init__", "from_edges"}
    /\ ret.arg[1].edges # None
    /\ ret.arg[1].edge_attrs # None
    /\ \A i \in 1 .. Len(ret.arg[1].edges[1]) : ret.arg[1].edges[1][i] # {}

GivenEdges == ret.arg[1].edges[1]
GivenEdgeAttrs == ret.arg[1].edge_attrs[1]

\* C12: a construction from an edge list and an edge_attrs list fails with
\* the length-mismatch ValueError if and only if the two given lists differ in
\* length, also when the given edge list repeats an edge.
C12_MismatchIffLengthsDiffer ==
    BuiltWithAttrs => ((ret.exc = "AttrLen") <=> (Len(GivenEdgeAttrs) # Len(GivenEdges)))

\* what the code does: the length of edge_attrs is compared with the number
\* of distinct given edges
C12_MismatchAgainstStoredEdges ==
    BuiltWithAttrs =>
        ((ret.exc = "AttrLen") <=> (Len(GivenEdgeAttrs) # Cardinality(Range(GivenEdges))))

\* one attribute dict per given edge, a repeated edge, and the call raised
C12_RepeatedEdgeRejected ==
    /\ BuiltWithAttrs
    /\ Len(GivenEdgeAttrs) = Len(GivenEdges)
    /\ Cardinality(Range(GivenEdges)) < Len(GivenEdges)
    /\ ret.exc = "AttrLen"


----------------------------------------------------------------------------
(* Claims about add_edge (SpecHG).                                         *)

\* the step is an add_edge call with argument e on an object with m edges:
\* what the call did
AddEdgeFrame(e, m) ==
    IF e = {}
    THEN /\ ret'.exc = "EmptyEdge"
         /\ H' = H
    ELSE IF e \in EdgesOf(H[1])
    THEN /\ ret'.exc = "" /\ ret'.val = None
         /\ H' = H
    ELSE /\ ret'.exc = "" /\ ret'.val = Some(m)
         /\ Len(H'[1].edges) = m + 1
         /\ H'[1].edges[m + 1] = e
         /\ H'[1].vertices = H[1].vertices \cup e
         /\ \A i \in 1 .. m : H'[1].edges[i] = H[1].edges[i]

\* C13: add_edge on a hypergraph with m edges raises the empty-edge error
\* and leaves the object (vertices, edges, edge attributes) as it was when the
\* given vertex set is empty; returns None and leaves the object as it was
\* when that vertex set is already an edge; otherwise returns m, stores the
\* edge at index m, adds its vertices to the vertex set and leaves every
\* earlier edge at its index.
C13_AddEdgeFrame ==
    [][(H # None /\ ret'.op = "add_edge") => AddEdgeFrame(ret'.arg[1], Len(H[1].edges))]_vars

\* add_edge returned 1: a second edge was stored, with a vertex that was new
C13_Witness ==
    /\ H # None
    /\ ret.op = "add_edge" /\ ret.val = Some(1)
    /\ Len(H[1].edges) = 2
    /\ H[1].edges[2] \ H[1].edges[1] # {}

\* add_edge raised for the empty vertex set on an object that holds an edge
C13_WitnessEmpty ==
    /\ H # None
    /\ ret.op = "add_edge" /\ ret.exc = "EmptyEdge"
    /\ Len(H[1].edges) >= 1


----------------------------------------------------------------------------
(* Claims about the two node predicates (SpecMasks).                       *)

BothCalled == res # None /\ res[1].op = "masks" /\ res[1].exact # None /\ res[1].public # None

\* the sizes of the edges the masks stand for, as a bag
SizeBag(edge_masks) ==
    [sz \in {_popcount(edge_masks[i]) : i \in 1 .. Len(edge_masks)} |->
        Cardinality({i \in 1 .. Len(edge_masks) : _popcount(edge_masks[i]) = sz})]

\* in the graph built from the masks every edge node's degree is its size
DegreeIsSize(edge_masks, nn) ==
    LET B == _incidence_graph_from_masks(edge_masks, nn)
    IN  \A i \in 1 .. Len(edge_masks) : Some(Degree(B, ENode(i - 1))) = B.attr[ENode(i - 1)].size

\* C14: on every pair of hypergraphs with vertices 1..n and 1..n' given by
\* edge masks, _isomorphic_masks (node predicate: equal class tag and equal
\* edge size) and is_isomorphic (node predicate: equal class tag) give the
\* same answer, and every edge node's degree in the reduction is its edge's
\* size.
C14_SameDecision ==
    /\ BothCalled => res[1].exact = res[1].public
    /\ (res # None /\ res[1].op = "masks") =>
          /\ DegreeIsSize(res[1].edge_masks_a, res[1].n_a)
          /\ DegreeIsSize(res[1].edge_masks_b, res[1].n_b)

\* both checks rejected a pair with the same number of vertices and of edges
\* whose edge sizes differ: the size test alone tells them apart
C14_Witness ==
    /\ BothCalled
    /\ res[1].exact = Some(FALSE) /\ res[1].public = Some(FALSE)
    /\ res[1].n_a = res[1].n_b
    /\ Len(res[1].edge_masks_a) = Len(res[1].edge_masks_b)
    /\ SizeBag(res[1].edge_masks_a) # SizeBag(res[1].edge_masks_b)

\* both checks accepted a pair of different mask lists with edges of two sizes
C14_WitnessAccepted ==
    /\ BothCalled
    /\ res[1].exact = Some(TRUE) /\ res[1].public = Some(TRUE)
    /\ res[1].edge_masks_a # res[1].edge_masks_b
    /\ Cardinality(DOMAIN SizeBag(res[1].edge_masks_a)) = 2

============================================================================
